---- MODULE Spec2Model ----
(***************************************************************************)
(* A model of the Downloader / Crawler core of Websitedownloaderpersonal.  *)
(*                                                                         *)
(*   Spec       Crawler.crawl: the dispatch loop of the main thread, the   *)
(*              thread pool, the worker closure and _wait_for_host         *)
(*              (src/src/downloader/crawler.py).                           *)
(*   SpecFetch  Downloader.fetch in static mode, one call, step by step    *)
(*              (src/src/downloader/downloader.py).                        *)
(*   SpecWarc   Crawler.export_warc over a result list.                    *)
(*   SpecServer POST /download, GET /result/{id} and the cleanup thread    *)
(*              (src/src/downloader/server.py).                            *)
(*   SpecLive, SpecSameFile: Crawler.crawl under fair scheduling, and on   *)
(*              a site that links to the seed with a query string.         *)
(***************************************************************************)
EXTENDS Integers, Sequences, FiniteSets, TLC

VARIABLES
    cfg,        \* the Crawler's constructor arguments and crawl()'s callback
    site,       \* which site the crawled servers serve
    crawl_no,   \* how many times crawl() was called on the Crawler
    net,        \* what each host has seen of the crawl's HTTP requests
    queue,      \* crawl(): the local list `queue` of (url, depth) jobs
    visited,    \* Crawler._visited
    host_last,  \* Crawler._host_last
    results,    \* Crawler._results
    lock,       \* Crawler._lock: 0 when free, else the task that holds it
    tasks,      \* the futures submitted to the ThreadPoolExecutor, in order
    main_pc,    \* where the thread that called crawl() stands
    clock,      \* time.time()
    disk,       \* the page files in output_dir
    dl,         \* one Downloader.fetch call (SpecFetch)
    warc,       \* one Crawler.export_warc call (SpecWarc)
    srv         \* the web server's stores and its last response (SpecServer)

vars == <<cfg, site, crawl_no, net, queue, visited, host_last, results, lock,
          tasks, main_pc, clock, disk, dl, warc, srv>>

\* What a Downloader.fetch call that writes no file leaves alone.
crawlVars == <<cfg, site, crawl_no, net, queue, visited, host_last, results,
               lock, tasks, main_pc, clock, disk, warc, srv>>

NULL == "None"

\* None where a page's text is expected (a page's text is identified by the
\* URL it was served for)
NoContent == [host |-> "", path |-> <<>>, query |-> ""]

\* None where a path is expected
NoPath == [host |-> "", path |-> <<>>, suffix |-> ""]

(***************************************************************************)
(* Bounds of the model.                                                    *)
(***************************************************************************)
MaxPages == 2          \* max_pages ranges over 1..MaxPages
MaxRequests == 2       \* POST /download requests handled by the server
MaxClock == 1          \* how far the clock runs ahead of StartClock unasked
MaxCrawls == 2         \* crawl() calls made on one Crawler

(***************************************************************************)
(* URLs.  A URL is a record of the parts urllib.parse.urlparse yields; a   *)
(* path is the sequence of its segments ("/" is the empty sequence).       *)
(***************************************************************************)
U(h, p) == [host |-> h, path |-> p, query |-> ""]

Netloc(u) == u.host

SeedHost == "a.com"
OtherHost == "b.org"

Seed == U(SeedHost, <<>>)
P1 == U(SeedHost, <<"p1">>)
P2 == U(SeedHost, <<"p2">>)
X1 == U(OtherHost, <<>>)

\* The seed's URL with a query string: http://a.com/?v=2
SeedQ == [Seed EXCEPT !.query = "v=2"]

URLs == {Seed, P1, P2, X1}

\* An href of an <a> tag: absolute, relative to the host root, a scheme
\* that is not followed, or empty.
Abs(u) == [kind |-> "abs", url |-> u, path |-> <<>>]
Rel(p) == [kind |-> "rel", url |-> Seed, path |-> p]
Mailto == [kind |-> "mailto", url |-> Seed, path |-> <<>>]
Empty == [kind |-> "empty", url |-> Seed, path |-> <<>>]

\* The site that is crawled: the <a href> values of each page, in document
\* order.  The seed page links twice to /p1 and once to another host; on
\* the site "query" it links to itself with a query string and to /p1.
Hrefs(u) ==
    IF site = "query"
    THEN (IF u = Seed THEN <<Abs(SeedQ), Rel(<<"p1">>)>> ELSE <<>>)
    ELSE IF u = Seed THEN <<Rel(<<"p1">>), Mailto, Abs(X1), Rel(<<"p1">>)>>
    ELSE IF u = P1 THEN <<Rel(<<>>), Empty, Rel(<<"p2">>)>>
    ELSE IF u = X1 THEN <<Abs(Seed)>>
    ELSE <<>>

\* The assets of the site.
A1 == U(SeedHost, <<"a.png">>)
S1 == U(SeedHost, <<"s.css">>)

\* The asset tags of each page's markup, in document order: the seed page
\* holds <img src="/a.png">, <link rel="stylesheet" href="/s.css"> and a
\* second <img src="/a.png">.  `ref` is the attribute's value as served,
\* `url` what urljoin resolves it to.
\* A page below a directory of the seed's host: http://a.com/d/p3
D1 == U(SeedHost, <<"d", "p3">>)

OrigRef(u) == [kind |-> "orig", host |-> "", path |-> u.path]
Tag(name, u) == [tag |-> name, ref |-> OrigRef(u), url |-> u]
Srcs(u) ==
    IF u = Seed THEN <<Tag("img", A1), Tag("link", S1), Tag("img", A1)>>
    ELSE IF u = P1 THEN <<Tag("script", S1)>>
    ELSE IF u = D1 THEN <<Tag("img", A1)>>
    ELSE <<>>

\* The text of a page: the page it is the markup of, and its asset tags.
\* Text(u) is what the server sends for u; EmptyText is the empty string.
Text(u) == [page |-> u, srcs |-> Srcs(u)]
EmptyText == [page |-> NoContent, srcs |-> <<>>]

\* What a 2xx answer to the page GET carries.
Bodies == {"html", "empty"}
ResponseText(u, body) == IF body = "empty" THEN EmptyText ELSE Text(u)

\* robots.txt of each host, when it is served: the disallowed paths.
RobotsTxt(h) == IF h = SeedHost THEN {<<"p1">>} ELSE {}

Hosts == {Netloc(u) : u \in URLs}

Min(a, b) == IF a < b THEN a ELSE b

RECURSIVE Pow2(_)
Pow2(n) == IF n = 0 THEN 1 ELSE 2 * Pow2(n - 1)

Range(s) == {s[i] : i \in 1..Len(s)}

(***************************************************************************)
(* Downloader: robots.txt.                                                 *)
(***************************************************************************)
\* What the server answers to GET {root}/robots.txt.
\*   "200"      a robots.txt with the rules RobotsTxt(host)
\*   "junk"     a 200 whose body decodes but holds no rule
\*   "garbled"  a 200 whose body is not UTF-8
\*   "403", "404", "500"   an HTTPError of that status
\*   "neterr"   no response: connection error or timeout
RobotsResponses == {"200", "junk", "garbled", "403", "404", "500", "neterr"}

\* urllib.robotparser.RobotFileParser() as constructed at downloader.py:50.
NewParser ==
    [disallow_all |-> FALSE, allow_all |-> FALSE, last_checked |-> FALSE,
     disallowed |-> {}]

\* parser.read() inside the try/except of _get_robots_parser: 401/403 set
\* disallow_all, another 4xx sets allow_all, a 5xx is caught by read() and
\* sets nothing; a network error or an undecodable body raises out of
\* read(), is swallowed by the except clause, and leaves the parser as
\* constructed; a served body is parsed, which stamps last_checked.
get_robots_parser(host, resp) ==
    CASE resp = "403" -> [NewParser EXCEPT !.disallow_all = TRUE]
      [] resp = "404" -> [NewParser EXCEPT !.allow_all = TRUE]
      [] resp = "200" -> [NewParser EXCEPT !.last_checked = TRUE,
                                           !.disallowed = RobotsTxt(host)]
      [] resp = "junk" -> [NewParser EXCEPT !.last_checked = TRUE]
      [] OTHER -> NewParser

\* A Disallow rule matches the paths it is a prefix of.
IsPrefix(p, q) == Len(p) <= Len(q) /\ SubSeq(q, 1, Len(p)) = p

\* parser.can_fetch(user_agent, url)
\* Fault variant of can_fetch: a parser that never read a robots.txt is
\* treated as one holding no rule.
can_fetch_unread_allows(parser, url) ==
    IF parser.disallow_all THEN FALSE
    ELSE IF parser.allow_all THEN TRUE
    ELSE ~\E d \in parser.disallowed : IsPrefix(d, url.path)

can_fetch(parser, url) ==
    IF parser.disallow_all THEN FALSE
    ELSE IF parser.allow_all THEN TRUE
    ELSE IF ~parser.last_checked THEN FALSE
    ELSE \A d \in parser.disallowed : ~IsPrefix(d, url.path)

\* Downloader.allowed_by_robots, for the answer `resp` to its robots.txt GET.
allowed_by_robots(respect_robots, url, resp) ==
    IF ~respect_robots THEN TRUE
    ELSE can_fetch(get_robots_parser(Netloc(url), resp), url)

(***************************************************************************)
(* Downloader.fetch, static mode.                                          *)
(***************************************************************************)
MaxAttempts == 8     \* for attempt in range(8)
LastAttempt == 7     \* if attempt == 7: raise
BackoffCap == 16     \* min(2 ** attempt, 16)

\* What the server does to the page GET of each attempt: "ok" is a 2xx
\* response, "err" any requests.exceptions.RequestException (connection
\* error, timeout, or the HTTPError of raise_for_status).
Scripts == [1..MaxAttempts -> {"ok", "err"}]

\* The scripts that fail k times and then succeed (k = MaxAttempts: never).
FailFirst(k) == [i \in 1..MaxAttempts |-> IF i <= k THEN "err" ELSE "ok"]
CrawlScripts == {FailFirst(k) : k \in {0, MaxAttempts}}

\* One answer of each kind the parser tells apart: served, absent, failed.
CrawlRobotsResponses == {"200", "404", "neterr"}

\* Fault variant of wait_time: the backoff is not capped.
wait_time_uncapped(attempt) == Pow2(attempt)

wait_time(attempt) == Min(Pow2(attempt), BackoffCap)

\* One iteration of the retry loop, for the answer `resp` to its GET.
AttemptOutcome(attempt, resp) ==
    IF resp = "ok" THEN "break"
    ELSE IF attempt = LastAttempt THEN "raise"
    ELSE "sleep"

\* The whole retry loop from `attempt` on: how it ends, the GETs it issued
\* and the sleeps it made.
RECURSIVE StaticLoop(_, _, _)
StaticLoop(script, attempt, waits) ==
    IF attempt >= MaxAttempts
    THEN [end |-> "else", gets |-> attempt, waits |-> waits]
    ELSE LET o == AttemptOutcome(attempt, script[attempt + 1]) IN
         IF o = "sleep"
         THEN StaticLoop(script, attempt + 1, Append(waits, wait_time(attempt)))
         ELSE [end |-> o, gets |-> attempt + 1, waits |-> waits]

SafeHost(h) == h     \* netloc.replace(":", "_"): no modelled host has a port

HasDot(seg) == seg \in {"a.png", "s.css"}

\* Fault variant of PagePath: the query string is part of the name.
PagePath_WithQuery(url) ==
    LET safe_path == IF url.path = <<>> THEN <<"index">> ELSE url.path
        dotted == \E i \in 1..Len(safe_path) : HasDot(safe_path[i])
    IN [host |-> SafeHost(Netloc(url)),
        path |-> IF url.query = "" THEN safe_path ELSE Append(safe_path, url.query),
        suffix |-> IF dotted THEN "" ELSE ".html"]

\* The page file's name when no custom_filename is given.
PagePath(url) ==
    LET safe_path == IF url.path = <<>> THEN <<"index">> ELSE url.path
        dotted == \E i \in 1..Len(safe_path) : HasDot(safe_path[i])
    IN [host |-> SafeHost(Netloc(url)), path |-> safe_path,
        suffix |-> IF dotted THEN "" ELSE ".html"]

\* Path.suffix of a custom_filename.
HasSuffix(name) == name \in {"page.txt"}

\* fetch(), lines 156-169: the file the page is written to.
FilePath(url, custom_filename) ==
    IF custom_filename # NULL
    THEN [host |-> "", path |-> <<custom_filename>>,
          suffix |-> IF HasSuffix(custom_filename) THEN "" ELSE ".html"]
    ELSE PagePath(url)

\* The file an asset is saved to: output_dir/assets/{safe_host}/{basename}.
Basename(url) == IF url.path = <<>> THEN "unnamed" ELSE url.path[Len(url.path)]
AssetPath(url) ==
    [host |-> "", path |-> <<"assets", SafeHost(Netloc(url)), Basename(url)>>,
     suffix |-> ""]

\* os.path.relpath(local, output_dir) as an attribute value.
LocalRef(local) == [kind |-> "local", host |-> local.path[2], path |-> <<local.path[3]>>]

\* _parse_assets: the resolved URLs of the asset tags, without duplicates, in
\* document order.
RECURSIVE Dedup(_, _)
Dedup(urls, seen) ==
    IF urls = <<>> THEN <<>>
    ELSE IF Head(urls) \in seen THEN Dedup(Tail(urls), seen)
    ELSE <<Head(urls)>> \o Dedup(Tail(urls), seen \cup {Head(urls)})
parse_assets(html) == Dedup([i \in 1..Len(html.srcs) |-> html.srcs[i].url], {})

\* The positions of the tags named `name` in the markup, in document order.
RECURSIVE TagsNamed(_, _, _)
TagsNamed(html, name, i) ==
    IF i > Len(html.srcs) THEN <<>>
    ELSE (IF html.srcs[i].tag = name THEN <<i>> ELSE <<>>)
            \o TagsNamed(html, name, i + 1)

\* The asset downloads fetch makes, in order.  With rewrite_assets they are
\* those of _rewrite_assets_and_save: every img tag, then every script tag,
\* then every stylesheet link, each with the tag it belongs to; without, one
\* per URL of `assets` and no tag (pos = 0).
AssetWork(html, assets, rewrite_assets) ==
    IF rewrite_assets
    THEN LET order == TagsNamed(html, "img", 1) \o TagsNamed(html, "script", 1)
                        \o TagsNamed(html, "link", 1)
         IN [k \in 1..Len(order) |-> [pos |-> order[k], url |-> html.srcs[order[k]].url]]
    ELSE [k \in 1..Len(assets) |-> [pos |-> 0, url |-> assets[k]]]

\* What happens to the GET and the write of one asset: "ok", "fail" (the
\* three attempts all raise a RequestException and tenacity gives up) or
\* "write_error" (the response arrives and writing the file raises).
AssetOutcomes == {"ok", "fail", "write_error"}

\* _download_asset(url): "skipped" (it returns None: robots denies), "saved"
\* (it returns the target), or it raises: "fail" or "write_error".
download_asset(respect_robots, url, robots_resp, outcome) ==
    IF ~allowed_by_robots(respect_robots, url, robots_resp) THEN "skipped"
    ELSE IF outcome = "ok" THEN "saved"
    ELSE outcome

AssetRaised(r) == r \in {"fail", "write_error"}

AssetErrorText == "asset error"
PermissionErrorText == "Fetching disallowed by robots.txt"
RequestExceptionText == "RequestException"
CallbackErrorText == "callback raised"

\* The events fetch passes to progress_callback, and the one (if any) at
\* which a raising callback raises.
FetchEvents == {"start", "page_saved", "done"}
CallbackFaults(callback) ==
    IF callback = "raising" THEN FetchEvents \cup {"never"} ELSE {"never"}

\* One call of Downloader.fetch(url) with save_assets off: whether it
\* raised, with what text, how many page GETs it issued, whether it wrote
\* the page file, and the path it wrote or returned.
fetch(url, respect_robots, robots_resp, script, fault) ==
    LET loop == StaticLoop(script, 0, <<>>)
        base == [raised |-> TRUE, error |-> NULL, denied |-> FALSE, gets |-> 0,
                 waits |-> <<>>, wrote |-> FALSE, path |-> PagePath(url)]
    IN IF ~allowed_by_robots(respect_robots, url, robots_resp)
       THEN [base EXCEPT !.error = PermissionErrorText, !.denied = TRUE]
       ELSE IF fault = "start"
       THEN [base EXCEPT !.error = CallbackErrorText]
       ELSE IF loop.end # "break"
       THEN [base EXCEPT !.error = RequestExceptionText, !.gets = loop.gets,
                         !.waits = loop.waits]
       ELSE IF fault = "page_saved"
       THEN [base EXCEPT !.error = CallbackErrorText, !.gets = loop.gets,
                         !.waits = loop.waits, !.wrote = TRUE]
       ELSE IF fault = "done"
       THEN [base EXCEPT !.error = CallbackErrorText, !.gets = loop.gets,
                         !.waits = loop.waits, !.wrote = TRUE]
       ELSE [base EXCEPT !.raised = FALSE, !.gets = loop.gets,
                         !.waits = loop.waits, !.wrote = TRUE]

(***************************************************************************)
(* Crawler.                                                                *)
(***************************************************************************)
per_host_delay == 1

\* time.time() is seconds since the epoch: far more than per_host_delay
\* when the crawl starts.
StartClock == per_host_delay

\* re.search abstracted: a pattern is a word, found in a URL when it is the
\* URL's host or one of its path segments.
Search(p, url) == p = url.host \/ p \in Range(url.path)

\* The include and exclude patterns a crawl is configured with: none, or
\* patterns that the seed fails, that the link to /p1 passes, and that the
\* link to b.org passes the include of and fails the exclude of.
PatternChoices ==
    {[include |-> <<>>, exclude |-> <<>>],
     [include |-> <<"p1", "b.org">>, exclude |-> <<"b.org">>]}

AllConfigs ==
    {[max_pages |-> mp, max_depth |-> md, concurrency |-> cc, same_domain |-> sd,
      respect_robots |-> rr, include_patterns |-> pt.include,
      exclude_patterns |-> pt.exclude, progress_callback |-> cb] :
        mp \in 1..MaxPages, md \in {0, 1}, cc \in {1, 2}, sd \in BOOLEAN,
        rr \in BOOLEAN, pt \in PatternChoices, cb \in {"quiet", "raising"}}

\* The crawls that are explored: every combination with a callback that
\* never raises (or none), and the same-domain crawls on one thread without
\* patterns with a callback that may raise.
Configs ==
    {c \in AllConfigs :
        c.progress_callback = "raising" =>
            c.same_domain /\ c.include_patterns = <<>> /\ c.concurrency = 1}

start_url == Seed
start_host == Netloc(start_url)

CrawlResult(url, saved_path, error) ==
    [url |-> url, saved_path |-> saved_path, error |-> error]

RobotsErrorText == "Disallowed by robots.txt"

\* urllib.parse.urljoin(base_url, href)
urljoin(base, href) ==
    IF href.kind = "abs" THEN href.url ELSE U(base.host, href.path)

\* Crawler._discover_links on the <a href> values of a page
RECURSIVE discover_links(_, _)
discover_links(hrefs, base_url) ==
    IF hrefs = <<>> THEN <<>>
    ELSE LET href == Head(hrefs)
             rest == discover_links(Tail(hrefs), base_url)
         IN IF href.kind \in {"empty", "mailto"} THEN rest
            ELSE <<urljoin(base_url, href)>> \o rest

\* What a host has seen: the time of the latest request to it (0 before
\* the first) and the shortest interval between two requests that followed
\* each other, none before the second request.
InitNet == [h \in Hosts |-> [last |-> 0, closest |-> {}]]

Gap(a, b) == IF a >= b THEN a - b ELSE b - a

\* The host `h` receives requests at the times `times`, in this order.
RECURSIVE Requested(_, _, _)
Requested(n, h, times) ==
    IF times = <<>> THEN n
    ELSE LET at == Head(times)
             g == Gap(at, n[h].last)
             closest == IF n[h].last = 0 THEN {}
                        ELSE IF n[h].closest = {} THEN {g}
                        ELSE {Min(g, CHOOSE c \in n[h].closest : TRUE)}
         IN Requested([n EXCEPT ![h] = [last |-> at, closest |-> closest]],
                      h, Tail(times))

Task(url, depth) ==
    [url |-> url, depth |-> depth, pc |-> "pending",
     links |-> <<>>,      \* worker(): links
     idx |-> 1,           \* worker(): the position of `l` in links
     last |-> 0,          \* _wait_for_host: last
     wake |-> 0,          \* _wait_for_host: when time.sleep(wait) ends
     \* history of the job, read by the properties only
     reserved |-> FALSE,  \* it added its URL to _visited
     denied |-> FALSE,    \* a robots check of it answered False
     got |-> FALSE,       \* its Downloader issued a page GET
     wrote |-> FALSE,     \* its Downloader wrote the page file
     stamp |-> 0,         \* the time it recorded in _host_last
     raised |-> NULL,     \* the text of the exception its fetch raised
     exc |-> FALSE,       \* an exception left worker(); its future holds it
     out |-> <<>>]        \* the CrawlResults it appended

Running == {t \in 1..Len(tasks) : tasks[t].pc \notin {"pending", "done"}}

\* The state of one Downloader.fetch(url, render_js=False) call.
FetchCall(url, respect_robots, robots_resp, script, fault) ==
    [pc |-> "robots",
     url |-> url,
     custom_filename |-> NULL,           \* fetch(): custom_filename
     calls |-> 1,                        \* how many times the caller fetches url
     call |-> 1,                         \* which of these calls this one is
     first |-> [path |-> NoPath, files |-> {}],  \* history: the first call's
                                         \* return value and the files after it
     respect_robots |-> respect_robots,  \* Downloader.respect_robots
     robots_resp |-> robots_resp,        \* the server's answer for robots.txt
     script |-> script,                  \* the server's answers to the page GETs
     fault |-> fault,                    \* where progress_callback raises
     body |-> "html",                    \* what a 2xx answer to the GET carries
     save_assets |-> FALSE,
     rewrite_assets |-> TRUE,
     work |-> <<>>,                      \* the asset downloads still to make
     soup |-> NoContent,                 \* _rewrite_assets_and_save: soup
     tried |-> <<>>,                     \* history: the asset downloads made
     allowed |-> "unchecked",            \* what allowed_by_robots answered
     robots_gets |-> 0,                  \* history: robots.txt requests made
     attempt |-> 0,                      \* fetch(): attempt
     gets |-> 0,                         \* history: session.get calls made
     waits |-> <<>>,                     \* history: the time.sleep(wait_time) made
     content |-> NoContent,              \* fetch(): content (the page it is of)
     events |-> <<>>,                    \* the events passed to progress_callback
     error |-> NULL,                     \* the exception fetch raised
     path |-> NoPath]                    \* the path fetch returned

InitDl == [FetchCall(Seed, TRUE, "404", FailFirst(0), "never") EXCEPT !.pc = "idle"]

\* The state of one Crawler.export_warc(results, filename) call.
WarcCall(warcio) ==
    [pc |-> "open",
     warcio |-> warcio,     \* whether warcio can be imported
     filename |-> "out.warc.gz",
     idx |-> 1,             \* the result the loop at line 210 stands at
     records |-> <<>>,      \* the records written, in order
     failed |-> {},         \* history: the results whose asset phase raised
     error |-> NULL,        \* the exception export_warc raised
     ret |-> NULL]          \* what export_warc returned

\* No export_warc call in progress.
InitWarc == [WarcCall(TRUE) EXCEPT !.pc = "idle"]

\* The server after start-up: results_store is empty.  Result ids are
\* 1, 2, ... in the order they are drawn.
InitSrv ==
    [results_store |-> <<>>,   \* results_store, by result id
     cleanup |-> [pc |-> "sleep", expired |-> <<>>],  \* cleanup_expired_archives
     posts |-> <<>>,           \* history: the POST /download requests handled
     last |-> [status |-> 0, mime |-> NULL, id |-> 0]]   \* the last response

Init ==
    /\ cfg \in Configs
    /\ site = "plain"
    /\ crawl_no = 1
    /\ net = InitNet
    /\ queue = <<[url |-> start_url, depth |-> 0]>>
    /\ visited = {}
    /\ host_last = [h \in Hosts |-> 0]
    /\ results = <<>>
    /\ lock = 0
    /\ tasks = <<>>
    /\ main_pc = "dispatch"
    /\ clock = StartClock
    /\ disk = <<>>
    /\ dl = InitDl
    /\ warc = InitWarc
    /\ srv = InitSrv

\* crawl(), lines 173-175: one iteration of the dispatch loop.
M_Dispatch ==
    /\ main_pc = "dispatch"
    /\ queue # <<>>
    /\ Len(results) < cfg.max_pages
    /\ tasks' = Append(tasks, Task(Head(queue).url, Head(queue).depth))
    /\ queue' = Tail(queue)
    /\ UNCHANGED <<cfg, site, crawl_no, net, visited, host_last, results,
                   lock, main_pc, clock, disk, dl, warc, srv>>

\* crawl(), line 173: the loop condition fails; the loop is not entered again.
M_ExitLoop ==
    /\ main_pc = "dispatch"
    /\ ~(queue # <<>> /\ Len(results) < cfg.max_pages)
    /\ main_pc' = "join"
    /\ UNCHANGED <<cfg, site, crawl_no, net, queue, visited, host_last,
                   results, lock, tasks, clock, disk, dl, warc, srv>>

\* crawl(), lines 177-182: every future has completed; crawl() returns.
M_Return ==
    /\ main_pc = "join"
    /\ \A t \in 1..Len(tasks) : tasks[t].pc = "done"
    /\ main_pc' = "done"
    /\ UNCHANGED <<cfg, site, crawl_no, net, queue, visited, host_last,
                   results, lock, tasks, clock, disk, dl, warc, srv>>

\* crawl() is called again on the same Crawler with the same seed (lines
\* 96-111 and 170-171): a new queue and a new list of futures; _visited,
\* _results and _host_last are the instance's and are left as they are.
M_CrawlAgain ==
    /\ main_pc = "done"
    /\ crawl_no < MaxCrawls
    /\ crawl_no' = crawl_no + 1
    /\ queue' = <<[url |-> start_url, depth |-> 0]>>
    /\ tasks' = <<>>
    /\ main_pc' = "dispatch"
    /\ UNCHANGED <<cfg, site, net, visited, host_last, results, lock, clock,
                   disk, dl, warc, srv>>

\* A pool thread takes the oldest pending future and runs worker() up to
\* line 115.
W_Start(t) ==
    /\ tasks[t].pc = "pending"
    /\ \A s \in 1..(t - 1) : tasks[s].pc # "pending"
    /\ Cardinality(Running) < cfg.concurrency
    /\ tasks' = [tasks EXCEPT ![t].pc =
                    IF Len(results) >= cfg.max_pages THEN "done" ELSE "check_visited"]
    /\ UNCHANGED <<cfg, site, crawl_no, net, queue, visited, host_last,
                   results, lock, main_pc, clock, disk, dl, warc, srv>>

\* worker(), lines 116-117
W_CheckVisited(t) ==
    /\ tasks[t].pc = "check_visited"
    /\ tasks' = [tasks EXCEPT ![t].pc =
                    IF tasks[t].url \in visited THEN "done" ELSE "reserve"]
    /\ UNCHANGED <<cfg, site, crawl_no, net, queue, visited, host_last,
                   results, lock, main_pc, clock, disk, dl, warc, srv>>

\* worker(), lines 118-124: the insertion under the lock, then the domain
\* check.
W_Reserve(t) ==
    /\ tasks[t].pc = "reserve"
    /\ lock = 0
    /\ visited' = visited \cup {tasks[t].url}
    /\ tasks' = [tasks EXCEPT
                    ![t].reserved = TRUE,
                    ![t].pc = IF cfg.same_domain /\ Netloc(tasks[t].url) # start_host
                              THEN "done"
                              ELSE IF cfg.respect_robots THEN "robots" ELSE "wait"]
    /\ UNCHANGED <<cfg, site, crawl_no, net, queue, host_last, results, lock,
                   main_pc, clock, disk, dl, warc, srv>>

\* Fault variant of W_Robots: after a denial the worker records nothing and
\* goes on to the fetch.
W_Robots_DenialIgnored(t) ==
    /\ tasks[t].pc = "robots"
    /\ \E resp \in CrawlRobotsResponses :
          tasks' = [tasks EXCEPT
                      ![t].pc = "wait",
                      ![t].denied = ~allowed_by_robots(TRUE, tasks[t].url, resp)]
    /\ net' = Requested(net, Netloc(tasks[t].url), <<clock>>)
    /\ UNCHANGED <<cfg, site, crawl_no, queue, visited, host_last, results,
                   lock, main_pc, clock, disk, dl, warc, srv>>

\* worker(), lines 126-131
W_Robots(t) ==
    /\ tasks[t].pc = "robots"
    /\ \E resp \in CrawlRobotsResponses :
          IF allowed_by_robots(TRUE, tasks[t].url, resp)
          THEN /\ tasks' = [tasks EXCEPT ![t].pc = "wait"]
               /\ UNCHANGED results
          ELSE /\ results' = Append(results,
                                    CrawlResult(tasks[t].url, NoPath, RobotsErrorText))
               /\ tasks' = [tasks EXCEPT
                     ![t].pc = "done", ![t].denied = TRUE,
                     ![t].out = Append(@, CrawlResult(tasks[t].url, NoPath,
                                                      RobotsErrorText))]
    /\ net' = Requested(net, Netloc(tasks[t].url), <<clock>>)
    /\ UNCHANGED <<cfg, site, crawl_no, queue, visited, host_last, lock,
                   main_pc, clock, disk, dl, warc, srv>>

\* Fault variant of W_WaitAcquire: the last-request time is read without
\* holding the lock.
W_WaitAcquire_NoLock(t) ==
    /\ tasks[t].pc = "wait"
    /\ LET last == host_last[Netloc(tasks[t].url)]
           now == clock
           wait == per_host_delay - (now - last)
       IN tasks' = [tasks EXCEPT ![t].pc = "sleep", ![t].last = last,
                                 ![t].wake = IF wait > 0 THEN now + wait ELSE now]
    /\ UNCHANGED <<cfg, site, crawl_no, net, queue, visited, host_last,
                   results, lock, main_pc, clock, disk, dl, warc, srv>>

\* _wait_for_host, lines 72-76: take the lock and compute the wait.
W_WaitAcquire(t) ==
    /\ tasks[t].pc = "wait"
    /\ lock = 0
    /\ lock' = t
    /\ LET last == host_last[Netloc(tasks[t].url)]
           now == clock
           wait == per_host_delay - (now - last)
       IN tasks' = [tasks EXCEPT ![t].pc = "sleep", ![t].last = last,
                                 ![t].wake = IF wait > 0 THEN now + wait ELSE now]
    /\ UNCHANGED <<cfg, site, crawl_no, net, queue, visited, host_last,
                   results, main_pc, clock, disk, dl, warc, srv>>

\* Fault variant of W_WaitStamp: the lock is not released when
\* _wait_for_host returns.
W_WaitStamp_KeepsLock(t) ==
    /\ tasks[t].pc = "sleep"
    /\ clock >= tasks[t].wake
    /\ host_last' = [host_last EXCEPT ![Netloc(tasks[t].url)] = clock]
    /\ tasks' = [tasks EXCEPT ![t].pc = "fetch", ![t].stamp = clock]
    /\ UNCHANGED <<cfg, site, crawl_no, net, queue, visited, results, lock,
                   main_pc, clock, disk, dl, warc, srv>>

\* _wait_for_host, lines 77-78: the sleep is over; stamp and release.
W_WaitStamp(t) ==
    /\ tasks[t].pc = "sleep"
    /\ clock >= tasks[t].wake
    /\ host_last' = [host_last EXCEPT ![Netloc(tasks[t].url)] = clock]
    /\ lock' = 0
    /\ tasks' = [tasks EXCEPT ![t].pc = "fetch", ![t].stamp = clock]
    /\ UNCHANGED <<cfg, site, crawl_no, net, queue, visited, results, main_pc,
                   clock, disk, dl, warc, srv>>

\* The sum of the first n sleeps of the retry loop.
RECURSIVE SumWaits(_, _)
SumWaits(waits, n) == IF n = 0 THEN 0 ELSE waits[n] + SumWaits(waits, n - 1)

\* The times of the requests of a fetch() that starts at `now`: the
\* robots.txt GET of allowed_by_robots (line 75), then each session.get of the
\* retry loop (line 138), the k-th after the sleeps of the ones before it.
RequestTimes(respect_robots, r, now) ==
    (IF respect_robots THEN <<now>> ELSE <<>>)
       \o [k \in 1..r.gets |-> now + SumWaits(r.waits, k - 1)]

\* Whether progress_callback raises at the page_error event (line 168).
PageErrorFaults(callback) == IF callback = "raising" THEN BOOLEAN ELSE {FALSE}

\* Fault variant of W_Fetch: what fetch raises is not caught in worker().
W_Fetch_Uncaught(t) ==
    /\ tasks[t].pc = "fetch"
    /\ \E resp \in CrawlRobotsResponses, script \in CrawlScripts,
          fault \in CallbackFaults(cfg.progress_callback) :
          LET url == tasks[t].url
              r == fetch(url, cfg.respect_robots, resp, script, fault)
              hist == [tasks EXCEPT ![t].got = r.gets > 0, ![t].wrote = r.wrote,
                                    ![t].denied = @ \/ r.denied]
          IN /\ net' = Requested(net, Netloc(url),
                                 RequestTimes(cfg.respect_robots, r, clock))
             /\ disk' = IF r.wrote THEN (r.path :> Text(url)) @@ disk ELSE disk
             /\ IF r.raised
                THEN /\ UNCHANGED results
                     /\ tasks' = [hist EXCEPT
                           ![t].pc = "done", ![t].raised = r.error, ![t].exc = TRUE]
                ELSE /\ results' = Append(results, CrawlResult(url, r.path, NULL))
                     /\ tasks' = [hist EXCEPT
                           ![t].pc = "page_visited",
                           ![t].out = Append(@, CrawlResult(url, r.path, NULL))]
    /\ UNCHANGED <<cfg, site, crawl_no, queue, visited, host_last, lock,
                   main_pc, clock, dl, warc, srv>>

\* worker(), lines 135-145 and 164-168: Downloader.fetch and the result it
\* leads to.
W_Fetch(t) ==
    /\ tasks[t].pc = "fetch"
    /\ \E resp \in CrawlRobotsResponses, script \in CrawlScripts,
          fault \in CallbackFaults(cfg.progress_callback),
          page_error \in PageErrorFaults(cfg.progress_callback) :
          LET url == tasks[t].url
              r == fetch(url, cfg.respect_robots, resp, script, fault)
              hist == [tasks EXCEPT ![t].got = r.gets > 0, ![t].wrote = r.wrote,
                                    ![t].denied = @ \/ r.denied]
          IN /\ net' = Requested(net, Netloc(url),
                                 RequestTimes(cfg.respect_robots, r, clock))
             /\ disk' = IF r.wrote THEN (r.path :> Text(url)) @@ disk ELSE disk
             /\ IF r.raised
                THEN /\ results' = Append(results, CrawlResult(url, NoPath, r.error))
                     /\ tasks' = [hist EXCEPT
                           ![t].pc = "done",
                           ![t].raised = r.error,
                           ![t].exc = page_error,
                           ![t].out = Append(@, CrawlResult(url, NoPath, r.error))]
                ELSE /\ results' = Append(results, CrawlResult(url, r.path, NULL))
                     /\ tasks' = [hist EXCEPT
                           ![t].pc = "page_visited",
                           ![t].out = Append(@, CrawlResult(url, r.path, NULL))]
    /\ UNCHANGED <<cfg, site, crawl_no, queue, visited, host_last, lock,
                   main_pc, clock, dl, warc, srv>>

\* Fault variant of W_PageVisited: when the callback raises, the error is
\* written into the result the worker appended before.
W_PageVisited_Amend(t) ==
    /\ tasks[t].pc = "page_visited"
    /\ \E raises \in (IF cfg.progress_callback = "raising" THEN BOOLEAN ELSE {FALSE}),
          page_error \in PageErrorFaults(cfg.progress_callback) :
          IF raises
          THEN /\ results' = [i \in 1..Len(results) |->
                                 IF results[i].url = tasks[t].url
                                 THEN [results[i] EXCEPT !.error = CallbackErrorText]
                                 ELSE results[i]]
               /\ tasks' = [tasks EXCEPT ![t].pc = "done", ![t].exc = page_error]
          ELSE /\ UNCHANGED results
               /\ tasks' = [tasks EXCEPT
                     ![t].pc = IF tasks[t].depth < cfg.max_depth
                               THEN "enqueue" ELSE "done",
                     ![t].links = IF tasks[t].depth < cfg.max_depth
                                  THEN discover_links(
                                         Hrefs(disk[PagePath(tasks[t].url)].page),
                                         tasks[t].url)
                                  ELSE <<>>]
    /\ UNCHANGED <<cfg, site, crawl_no, net, queue, visited, host_last, lock,
                   main_pc, clock, disk, dl, warc, srv>>

\* worker(), lines 146-154 and 164-168: the page_visited event, then the
\* links of the saved file.
W_PageVisited(t) ==
    /\ tasks[t].pc = "page_visited"
    /\ \E raises \in (IF cfg.progress_callback = "raising" THEN BOOLEAN ELSE {FALSE}),
          page_error \in PageErrorFaults(cfg.progress_callback) :
          IF raises
          THEN /\ results' = Append(results,
                                    CrawlResult(tasks[t].url, NoPath, CallbackErrorText))
               /\ tasks' = [tasks EXCEPT
                     ![t].pc = "done",
                     ![t].exc = page_error,
                     ![t].out = Append(@, CrawlResult(tasks[t].url, NoPath,
                                                      CallbackErrorText))]
          ELSE /\ UNCHANGED results
               /\ tasks' = [tasks EXCEPT
                     ![t].pc = IF tasks[t].depth < cfg.max_depth
                               THEN "enqueue" ELSE "done",
                     ![t].links = IF tasks[t].depth < cfg.max_depth
                                  THEN discover_links(
                                         Hrefs(disk[PagePath(tasks[t].url)].page),
                                         tasks[t].url)
                                  ELSE <<>>]
    /\ UNCHANGED <<cfg, site, crawl_no, net, queue, visited, host_last, lock,
                   main_pc, clock, disk, dl, warc, srv>>

\* Fault variant of Enqueued: the exclude patterns are not applied.
Enqueued_NoExclude(q, l, depth) ==
    IF cfg.include_patterns # <<>>
       /\ ~\E i \in 1..Len(cfg.include_patterns) : Search(cfg.include_patterns[i], l)
    THEN q
    ELSE IF l \notin visited /\ Cardinality(visited) + Len(q) < cfg.max_pages
    THEN Append(q, [url |-> l, depth |-> depth + 1])
    ELSE q

\* worker(), lines 158-163, for one link l
Enqueued(q, l, depth) ==
    IF cfg.include_patterns # <<>>
       /\ ~\E i \in 1..Len(cfg.include_patterns) : Search(cfg.include_patterns[i], l)
    THEN q
    ELSE IF \E i \in 1..Len(cfg.exclude_patterns) : Search(cfg.exclude_patterns[i], l)
    THEN q
    ELSE IF l \notin visited /\ Cardinality(visited) + Len(q) < cfg.max_pages
    THEN Append(q, [url |-> l, depth |-> depth + 1])
    ELSE q

\* worker(), lines 155-163: the lock is taken before the first link and
\* released after the last; each step handles one link.
W_Enqueue(t) ==
    /\ tasks[t].pc = "enqueue"
    /\ IF tasks[t].idx = 1 THEN lock = 0 ELSE lock = t
    /\ LET links == tasks[t].links
           i == tasks[t].idx
       IN /\ queue' = IF i <= Len(links)
                      THEN Enqueued(queue, links[i], tasks[t].depth)
                      ELSE queue
          /\ IF i >= Len(links)
             THEN /\ lock' = 0
                  /\ tasks' = [tasks EXCEPT ![t].pc = "done"]
             ELSE /\ lock' = t
                  /\ tasks' = [tasks EXCEPT ![t].idx = i + 1]
    /\ UNCHANGED <<cfg, site, crawl_no, net, visited, host_last, results,
                   main_pc, clock, disk, dl, warc, srv>>

\* Time passes.  Only _wait_for_host reads the clock, so the model lets it
\* advance while some worker is about to read it, up to MaxClock, and for as
\* long as a worker's time.sleep has not ended.
Tick ==
    /\ \/ /\ clock < StartClock + MaxClock
          /\ \E t \in 1..Len(tasks) : tasks[t].pc \in {"wait", "sleep"}
       \/ \E t \in 1..Len(tasks) : tasks[t].pc = "sleep" /\ clock < tasks[t].wake
    /\ clock' = clock + 1
    /\ UNCHANGED <<cfg, site, crawl_no, net, queue, visited, host_last,
                   results, lock, tasks, main_pc, disk, dl, warc, srv>>

Next ==
    \/ M_Dispatch
    \/ M_ExitLoop
    \/ M_Return
    \/ M_CrawlAgain
    \/ \E t \in 1..Len(tasks) : W_Start(t)
    \/ \E t \in 1..Len(tasks) : W_CheckVisited(t)
    \/ \E t \in 1..Len(tasks) : W_Reserve(t)
    \/ \E t \in 1..Len(tasks) : W_Robots(t)
    \/ \E t \in 1..Len(tasks) : W_WaitAcquire(t)
    \/ \E t \in 1..Len(tasks) : W_WaitStamp(t)
    \/ \E t \in 1..Len(tasks) : W_Fetch(t)
    \/ \E t \in 1..Len(tasks) : W_PageVisited(t)
    \/ \E t \in 1..Len(tasks) : W_Enqueue(t)
    \/ Tick

Spec == Init /\ [][Next]_vars

\* The crawls explored for termination: those without patterns whose
\* callback does not raise.
InitLive ==
    /\ Init
    /\ cfg.include_patterns = <<>>
    /\ cfg.progress_callback = "quiet"

\* A crawl whose threads are scheduled fairly: while crawl() has not
\* returned, the main thread, the pool's workers and the clock of a sleeping
\* worker are not held back forever.  Calling crawl() again is up to the
\* caller.
SpecLive == InitLive /\ [][Next]_vars /\ WF_vars(main_pc # "done" /\ Next)

\* The crawls of the site whose seed page links to the seed's URL with a
\* query string.
InitSameFile ==
    /\ cfg \in {c \in Configs : c.include_patterns = <<>>
                                /\ c.progress_callback = "quiet"}
    /\ site = "query"
    /\ crawl_no = 1
    /\ net = InitNet
    /\ queue = <<[url |-> start_url, depth |-> 0]>>
    /\ visited = {}
    /\ host_last = [h \in Hosts |-> 0]
    /\ results = <<>>
    /\ lock = 0
    /\ tasks = <<>>
    /\ main_pc = "dispatch"
    /\ clock = StartClock
    /\ disk = <<>>
    /\ dl = InitDl
    /\ warc = InitWarc
    /\ srv = InitSrv

SpecSameFile == InitSameFile /\ [][Next]_vars

(***************************************************************************)
(* Properties of the crawl.                                                *)
(***************************************************************************)
TaskIds == 1..Len(tasks)

\* C1: at every point of a crawl, and when crawl() returns, the result list
\* holds at most max_pages CrawlResults.
C1_ResultsWithinMaxPages == Len(results) <= cfg.max_pages

\* C2: when crawl() has returned, each URL is the url of at most one
\* CrawlResult of the returned list.
C2_OneResultPerUrl ==
    main_pc = "done" =>
        \A i, j \in 1..Len(results) : results[i].url = results[j].url => i = j

\* C3: the membership test and the insertion are one atomic step: no two
\* workers both find the same URL unvisited and both go past the
\* reservation.
C3_AtomicCheckAndInsert ==
    \A s, t \in TaskIds :
        tasks[s].reserved /\ tasks[t].reserved /\ tasks[s].url = tasks[t].url
            => s = t

\* C4: crawl() returns only when the frontier is empty or the result list
\* holds max_pages results.
C4_FrontierDrained ==
    main_pc = "done" => queue = <<>> \/ Len(results) >= cfg.max_pages

\* C5: with same_domain set, no CrawlResult has a URL of another host than
\* the seed's, and no URL of another host is handed to a worker or reserved
\* in the visited set.
C5_SameDomainNeverDispatched ==
    cfg.same_domain =>
        /\ \A i \in 1..Len(results) : Netloc(results[i].url) = start_host
        /\ \A t \in TaskIds : Netloc(tasks[t].url) = start_host
        /\ \A u \in visited : Netloc(u) = start_host

\* C6: with respect_robots set, a job for which a robots check answered
\* "denied" ends with exactly one CrawlResult, which has an error and no
\* saved_path; no page GET was issued and no page file written for it.
C6_RobotsDeniedIsError ==
    cfg.respect_robots =>
        \A t \in TaskIds :
            tasks[t].denied =>
                /\ ~tasks[t].got
                /\ ~tasks[t].wrote
                /\ tasks[t].pc = "done"
                /\ Len(tasks[t].out) = 1
                /\ tasks[t].out[1].url = tasks[t].url
                /\ tasks[t].out[1].error # NULL
                /\ tasks[t].out[1].saved_path = NoPath
                /\ \E i \in 1..Len(results) : results[i] = tasks[t].out[1]

\* A crawl has returned in which the crawler's own robots check denied one
\* job and the Downloader's robots check denied another.
C6_Witness ==
    /\ main_pc = "done"
    /\ cfg.respect_robots
    /\ \E s, t \in TaskIds :
          /\ tasks[s].denied /\ tasks[s].out[1].error = RobotsErrorText
          /\ tasks[t].denied /\ tasks[t].out[1].error = PermissionErrorText

Stamped(t) == tasks[t].stamp > 0

\* C8: every _wait_for_host call records a time at least per_host_delay
\* after the last-request time it read, the times any two calls record for
\* one host are at least per_host_delay apart, and no two calls for one
\* host compute their wait from the same last-request time.
C8_SameHostCallsSpaced ==
    /\ \A t \in TaskIds :
          Stamped(t) => tasks[t].stamp - tasks[t].last >= per_host_delay
    /\ \A s, t \in TaskIds :
          (s # t /\ Netloc(tasks[s].url) = Netloc(tasks[t].url)
                 /\ Stamped(s) /\ Stamped(t))
            => /\ \/ tasks[s].stamp - tasks[t].stamp >= per_host_delay
                  \/ tasks[t].stamp - tasks[s].stamp >= per_host_delay
               /\ tasks[s].last # tasks[t].last

\* Two calls for one host have returned, the later one after sleeping from
\* the time the earlier one recorded.
C8_Witness ==
    \E s, t \in TaskIds :
        /\ s # t
        /\ Netloc(tasks[s].url) = Netloc(tasks[t].url)
        /\ Stamped(s) /\ Stamped(t)
        /\ tasks[t].last = tasks[s].stamp
        /\ tasks[t].stamp = tasks[s].stamp + per_host_delay

Sleeping(s) == tasks[s].pc = "sleep" /\ clock < tasks[s].wake

\* C9: while a worker sleeps in _wait_for_host for one host, a worker that
\* calls _wait_for_host for another host, or that is about to insert into
\* the visited set or to enqueue links, can take its step.
C9_OtherHostsNotSerialized ==
    \A s, t \in TaskIds :
        Sleeping(s) =>
            /\ (tasks[t].pc = "wait" /\ Netloc(tasks[t].url) # Netloc(tasks[s].url))
                  => ENABLED W_WaitAcquire(t)
            /\ tasks[t].pc = "reserve" => ENABLED W_Reserve(t)
            /\ (tasks[t].pc = "enqueue" /\ tasks[t].idx = 1) => ENABLED W_Enqueue(t)

(***************************************************************************)
(* SpecFetch: one Downloader.fetch call in static mode, step by step.      *)
(***************************************************************************)
\* The calls that explore the retry loop and the robots answers.
RetryCalls ==
    {FetchCall(u, rr, resp, sc, f) :
        u \in {Seed, P1}, rr \in BOOLEAN, resp \in RobotsResponses,
        sc \in Scripts, f \in FetchEvents \cup {"never"}}

\* The calls whose page GET is answered with an empty body.
EmptyBodyCalls ==
    {[FetchCall(u, rr, "404", FailFirst(k), "never") EXCEPT !.body = "empty"] :
        u \in {Seed, P1}, rr \in BOOLEAN, k \in 0..MaxAttempts}

\* The calls that save the assets of the page.
AssetCalls ==
    {[FetchCall(u, rr, "404", FailFirst(0), f) EXCEPT
            !.save_assets = TRUE, !.rewrite_assets = rw] :
        u \in {Seed, P1}, rr \in BOOLEAN, rw \in BOOLEAN,
        f \in {"never", "assets_found"}}

\* The names a caller passes as custom_filename: None, one without and one
\* with an extension.
CustomFilenames == {NULL, "page", "page.txt"}

\* The calls whose caller fetches the same URL a second time into the same
\* output directory with the same custom_filename.
RepeatCalls ==
    {[FetchCall(u, rr, "404", FailFirst(k), "never") EXCEPT
            !.custom_filename = name, !.calls = 2] :
        u \in {Seed, P1}, rr \in BOOLEAN, k \in 0..1, name \in CustomFilenames}

FetchCalls == RetryCalls \cup EmptyBodyCalls \cup AssetCalls \cup RepeatCalls

InitFetch ==
    /\ dl \in FetchCalls
    /\ cfg \in {c \in Configs : c.max_pages = 1 /\ c.max_depth = 0
                                /\ c.concurrency = 1 /\ c.same_domain
                                /\ c.respect_robots = dl.respect_robots
                                /\ c.include_patterns = <<>>
                                /\ c.progress_callback = "quiet"}
    /\ site = "plain"
    /\ crawl_no = 1
    /\ net = InitNet
    /\ queue = <<>>
    /\ visited = {}
    /\ host_last = [h \in Hosts |-> 0]
    /\ results = <<>>
    /\ lock = 0
    /\ tasks = <<>>
    /\ main_pc = "idle"
    /\ clock = StartClock
    /\ disk = <<>>
    /\ warc = InitWarc
    /\ srv = InitSrv

\* progress_callback(event): the event is delivered, and the callback
\* raises if this is the event it fails at.
Emit(call, event) ==
    IF call.fault = event
    THEN [call EXCEPT !.events = Append(@, event), !.pc = "raised",
                      !.error = CallbackErrorText]
    ELSE [call EXCEPT !.events = Append(@, event)]

\* allowed_by_robots reads robots.txt once when respect_robots is set and
\* not at all otherwise (lines 60-64).
RobotsRequests(respect_robots) == IF respect_robots THEN 1 ELSE 0

\* Fault variant of F_Robots: the start event is emitted before the robots
\* check.
F_Robots_StartFirst ==
    /\ dl.pc = "robots"
    /\ dl' = LET c == Emit([dl EXCEPT !.robots_gets =
                                         @ + RobotsRequests(dl.respect_robots)],
                           "start")
             IN IF c.pc = "raised" THEN c
                ELSE IF allowed_by_robots(dl.respect_robots, dl.url, dl.robots_resp)
                THEN [c EXCEPT !.allowed = "yes", !.pc = "get"]
                ELSE [c EXCEPT !.allowed = "no", !.pc = "raised",
                               !.error = PermissionErrorText]
    /\ UNCHANGED crawlVars

\* fetch(), lines 75-80
F_Robots ==
    /\ dl.pc = "robots"
    /\ dl' = LET c == [dl EXCEPT !.robots_gets =
                                    @ + RobotsRequests(dl.respect_robots)]
             IN IF allowed_by_robots(dl.respect_robots, dl.url, dl.robots_resp)
                THEN Emit([c EXCEPT !.allowed = "yes", !.pc = "get"], "start")
                ELSE [c EXCEPT !.allowed = "no", !.pc = "raised",
                               !.error = PermissionErrorText]
    /\ UNCHANGED crawlVars

\* fetch(), lines 135-153: one iteration of the retry loop
F_Attempt ==
    /\ dl.pc = "get"
    /\ dl' = IF dl.attempt >= MaxAttempts
             THEN [dl EXCEPT !.pc = "raised", !.error = "RuntimeError"]
             ELSE LET o == AttemptOutcome(dl.attempt, dl.script[dl.attempt + 1])
                      got == [dl EXCEPT !.gets = @ + 1]
                  IN CASE o = "break" ->
                            [got EXCEPT !.content = ResponseText(dl.url, dl.body),
                                        !.pc = "save"]
                       [] o = "raise" ->
                            [got EXCEPT !.pc = "raised",
                                        !.error = RequestExceptionText]
                       [] OTHER ->
                            [got EXCEPT !.waits = Append(@, wait_time(dl.attempt)),
                                        !.attempt = @ + 1]
    /\ UNCHANGED crawlVars

\* Fault variant of F_Save: an existing file is kept and the page goes to a
\* fresh name next to it.
F_Save_NoClobber ==
    /\ dl.pc = "save"
    /\ disk' = LET f == FilePath(dl.url, dl.custom_filename)
               IN IF f \in DOMAIN disk
                  THEN ([f EXCEPT !.suffix = ".1"] :> dl.content) @@ disk
                  ELSE (f :> dl.content) @@ disk
    /\ dl' = Emit([dl EXCEPT !.pc = "saved"], "page_saved")
    /\ UNCHANGED <<cfg, site, crawl_no, net, queue, visited, host_last,
                   results, lock, tasks, main_pc, clock, warc, srv>>

\* fetch(), lines 155-175: the page file is written; write_text replaces the
\* content of a file that exists
F_Save ==
    /\ dl.pc = "save"
    /\ disk' = (FilePath(dl.url, dl.custom_filename) :> dl.content) @@ disk
    /\ dl' = Emit([dl EXCEPT !.pc = "saved"], "page_saved")
    /\ UNCHANGED <<cfg, site, crawl_no, net, queue, visited, host_last,
                   results, lock, tasks, main_pc, clock, warc, srv>>

\* fetch(), lines 178-181, and the soup of _rewrite_assets_and_save
F_ParseAssets ==
    /\ dl.pc = "saved"
    /\ dl.save_assets
    /\ dl' = Emit([dl EXCEPT
                     !.pc = "asset",
                     !.work = AssetWork(dl.content, parse_assets(dl.content),
                                        dl.rewrite_assets),
                     !.soup = IF dl.rewrite_assets THEN dl.content ELSE NoContent],
                  "assets_found")
    /\ UNCHANGED crawlVars

\* Fault variant of F_Asset: an exception of _download_asset is not caught.
F_Asset_Propagates ==
    /\ dl.pc = "asset"
    /\ dl.work # <<>>
    /\ \E resp \in CrawlRobotsResponses, o \in AssetOutcomes :
          LET a == Head(dl.work)
              r == download_asset(dl.respect_robots, a.url, resp, o)
              next == [dl EXCEPT !.work = Tail(@),
                                 !.robots_gets = @ + RobotsRequests(dl.respect_robots),
                                 !.tried = Append(@, [pos |-> a.pos, url |-> a.url,
                                                      result |-> r])]
          IN /\ disk' = IF r = "saved"
                        THEN (AssetPath(a.url) :> Text(a.url)) @@ disk ELSE disk
             /\ dl' = IF AssetRaised(r)
                      THEN [next EXCEPT !.pc = "raised", !.error = AssetErrorText]
                      ELSE next
    /\ UNCHANGED <<cfg, site, crawl_no, net, queue, visited, host_last,
                   results, lock, tasks, main_pc, clock, warc, srv>>

\* One asset: save_and_replace (lines 256-264) with rewrite_assets, one
\* iteration of the loop at lines 185-190 without.  Whatever _download_asset
\* raises is caught and logged.
F_Asset ==
    /\ dl.pc = "asset"
    /\ dl.work # <<>>
    /\ \E resp \in CrawlRobotsResponses, o \in AssetOutcomes :
          LET a == Head(dl.work)
              r == download_asset(dl.respect_robots, a.url, resp, o)
          IN /\ disk' = IF r = "saved"
                        THEN (AssetPath(a.url) :> Text(a.url)) @@ disk ELSE disk
             /\ dl' = [dl EXCEPT
                         !.work = Tail(@),
                         !.robots_gets = @ + RobotsRequests(dl.respect_robots),
                         !.tried = Append(@, [pos |-> a.pos, url |-> a.url,
                                              result |-> r]),
                         !.soup = IF dl.rewrite_assets /\ r = "saved"
                                  THEN [@ EXCEPT !.srcs[a.pos].ref =
                                                    LocalRef(AssetPath(a.url))]
                                  ELSE @]
    /\ UNCHANGED <<cfg, site, crawl_no, net, queue, visited, host_last,
                   results, lock, tasks, main_pc, clock, warc, srv>>

\* fetch(), line 183: content = the rewritten markup; or the loop at line 185
\* is over.
F_AssetsDone ==
    /\ dl.pc = "asset"
    /\ dl.work = <<>>
    /\ dl' = [dl EXCEPT !.pc = "finish",
                        !.content = IF dl.rewrite_assets THEN dl.soup ELSE @]
    /\ UNCHANGED crawlVars

\* fetch(), lines 192-194
F_Return ==
    /\ \/ dl.pc = "saved" /\ ~dl.save_assets
       \/ dl.pc = "finish"
    /\ dl' = LET c == Emit([dl EXCEPT !.pc = "returned"], "done")
             IN IF c.pc = "returned"
                THEN [c EXCEPT !.path = FilePath(dl.url, dl.custom_filename)]
                ELSE c
    /\ UNCHANGED crawlVars

\* The caller fetches the same URL again with the same Downloader, output
\* directory and custom_filename; the server may answer differently.
F_Again ==
    /\ dl.pc = "returned"
    /\ dl.call < dl.calls
    /\ \E k \in 0..1, body \in Bodies :
          dl' = [FetchCall(dl.url, dl.respect_robots, dl.robots_resp,
                           FailFirst(k), dl.fault) EXCEPT
                    !.custom_filename = dl.custom_filename,
                    !.calls = dl.calls,
                    !.call = dl.call + 1,
                    !.first = [path |-> dl.path, files |-> DOMAIN disk],
                    !.body = body]
    /\ UNCHANGED crawlVars

NextFetch ==
    \/ F_Robots
    \/ F_Attempt
    \/ F_Save
    \/ F_ParseAssets
    \/ F_Asset
    \/ F_AssetsDone
    \/ F_Return
    \/ F_Again

SpecFetch == InitFetch /\ [][NextFetch]_vars

FetchEnded == dl.pc \in {"raised", "returned"}

\* The call as fetch() computes it in one step agrees with the steps.
FetchAgrees ==
    (FetchEnded /\ ~dl.save_assets /\ dl.custom_filename = NULL /\ dl.call = 1) =>
        LET r == fetch(dl.url, dl.respect_robots, dl.robots_resp, dl.script, dl.fault)
        IN /\ r.raised = (dl.pc = "raised")
           /\ r.raised => r.error = dl.error
           /\ r.denied = (dl.allowed = "no")
           /\ r.gets = dl.gets
           /\ r.waits = dl.waits
           /\ r.wrote = (PagePath(dl.url) \in DOMAIN disk)
           /\ ~r.raised => r.path = dl.path

(***************************************************************************)
(* SpecWarc: one Crawler.export_warc call over a result list and the files *)
(* of the output directory.                                                *)
(***************************************************************************)
WarcInfo == [type |-> "warcinfo", url |-> NoContent]
Resource(url) == [type |-> "resource", url |-> url]

\* The URL an asset reference of a saved page resolves to (line 236).
WarcAssetUrl(page_url, tag) ==
    IF tag.ref.kind = "orig" THEN tag.url
    ELSE U(page_url.host, <<"assets", tag.ref.host, tag.ref.path[1]>>)

\* The file looked up for an asset (lines 238-241): assets/{safe_host}/
\* {basename} under the directory of the saved page.
WarcCandidate(saved_path, url) ==
    IF Len(saved_path.path) <= 1 THEN AssetPath(url)
    ELSE [host |-> saved_path.host,
          path |-> SubSeq(saved_path.path, 1, Len(saved_path.path) - 1)
                      \o <<"assets", SafeHost(Netloc(url)), Basename(url)>>,
          suffix |-> ""]

\* Lines 220-246: the records of the assets of one saved page that are found
\* on disk, in the order of the page's asset tags from tag i on.
RECURSIVE asset_records(_, _, _, _)
asset_records(files, r, html, i) ==
    IF i > Len(html.srcs) THEN <<>>
    ELSE LET full == WarcAssetUrl(r.url, html.srcs[i])
         IN (IF WarcCandidate(r.saved_path, full) \in DOMAIN files
             THEN <<Resource(full)>> ELSE <<>>)
               \o asset_records(files, r, html, i + 1)

\* Fault variant of result_records: a result with a saved_path gets its
\* record whether or not the file exists.
result_records_unchecked(files, r) ==
    IF r.saved_path # NoPath
    THEN <<Resource(r.url)>>
            \o (IF r.saved_path \in DOMAIN files
                THEN asset_records(files, r, files[r.saved_path], 1) ELSE <<>>)
    ELSE <<>>

\* Lines 211-248: the records one result adds.
result_records(files, r) ==
    IF r.saved_path # NoPath /\ r.saved_path \in DOMAIN files
    THEN <<Resource(r.url)>> \o asset_records(files, r, files[r.saved_path], 1)
    ELSE <<>>

\* The result lists and output directories export_warc is explored on.
ResultChoices ==
    {CrawlResult(Seed, PagePath(Seed), NULL), CrawlResult(P1, PagePath(P1), NULL),
     CrawlResult(D1, PagePath(D1), NULL), CrawlResult(P1, NoPath, RobotsErrorText)}
ResultLists == UNION {[1..n -> ResultChoices] : n \in 0..(MaxPages + 1)}
FileChoices ==
    {[p \in (pages \cup assets) |->
        IF p = PagePath(Seed) THEN Text(Seed)
        ELSE IF p = PagePath(P1) THEN Text(P1)
        ELSE IF p = PagePath(D1) THEN Text(D1)
        ELSE IF p = AssetPath(A1) THEN Text(A1) ELSE Text(S1)] :
      pages \in SUBSET {PagePath(Seed), PagePath(P1), PagePath(D1)},
      assets \in SUBSET {AssetPath(A1), AssetPath(S1)}}

InitWarcCall ==
    /\ cfg \in {c \in Configs : c.max_pages = 1 /\ c.max_depth = 0
                                /\ c.concurrency = 1 /\ c.same_domain
                                /\ c.respect_robots
                                /\ c.include_patterns = <<>>
                                /\ c.progress_callback = "quiet"}
    /\ site = "plain"
    /\ crawl_no = 1
    /\ net = InitNet
    /\ queue = <<>>
    /\ visited = {}
    /\ host_last = [h \in Hosts |-> 0]
    /\ results \in ResultLists
    /\ lock = 0
    /\ tasks = <<>>
    /\ main_pc = "idle"
    /\ clock = StartClock
    /\ disk \in FileChoices
    /\ dl = InitDl
    /\ warc \in {WarcCall(w) : w \in BOOLEAN}
    /\ srv = InitSrv

\* export_warc, lines 187-208: the import, the file, the warcinfo record.
X_Open ==
    /\ warc.pc = "open"
    /\ warc' = IF ~warc.warcio
               THEN [warc EXCEPT !.pc = "raised",
                                 !.error = "warcio is required to write WARC files"]
               ELSE [warc EXCEPT !.pc = "results", !.records = <<WarcInfo>>]
    /\ UNCHANGED <<cfg, site, crawl_no, net, queue, visited, host_last,
                   results, lock, tasks, main_pc, clock, disk, dl, srv>>

\* What can go wrong between lines 221 and 246: nothing, or an exception
\* (the import of bs4, the decoding of the page, the read of an asset file,
\* the writer) after n of the result's records are written, the page's own
\* being the first.  A result that is not exported does not enter the try.
AssetPhaseEnds(full) ==
    IF full = <<>> THEN {[raised |-> FALSE, n |-> 0]}
    ELSE {[raised |-> FALSE, n |-> Len(full)]}
            \cup {[raised |-> TRUE, n |-> n] : n \in 1..Len(full)}

\* Fault variant of X_Result: an exception of the asset phase leaves
\* export_warc.
X_Result_Propagates ==
    /\ warc.pc = "results"
    /\ warc.idx <= Len(results)
    /\ LET full == result_records(disk, results[warc.idx])
       IN \E e \in AssetPhaseEnds(full) :
             warc' = [warc EXCEPT
                        !.records = @ \o SubSeq(full, 1, e.n),
                        !.failed = IF e.raised THEN @ \cup {warc.idx} ELSE @,
                        !.pc = IF e.raised THEN "raised" ELSE @,
                        !.error = IF e.raised THEN "Exception" ELSE @,
                        !.idx = @ + 1]
    /\ UNCHANGED <<cfg, site, crawl_no, net, queue, visited, host_last,
                   results, lock, tasks, main_pc, clock, disk, dl, srv>>

\* export_warc, lines 210-248: one iteration of the loop over the results.
\* The except clause at line 247 ends the asset phase of this result only.
X_Result ==
    /\ warc.pc = "results"
    /\ warc.idx <= Len(results)
    /\ LET full == result_records(disk, results[warc.idx])
       IN \E e \in AssetPhaseEnds(full) :
             warc' = [warc EXCEPT
                        !.records = @ \o SubSeq(full, 1, e.n),
                        !.failed = IF e.raised THEN @ \cup {warc.idx} ELSE @,
                        !.idx = @ + 1]
    /\ UNCHANGED <<cfg, site, crawl_no, net, queue, visited, host_last,
                   results, lock, tasks, main_pc, clock, disk, dl, srv>>

\* export_warc, line 250
X_Return ==
    /\ warc.pc = "results"
    /\ warc.idx > Len(results)
    /\ warc' = [warc EXCEPT !.pc = "returned", !.ret = warc.filename]
    /\ UNCHANGED <<cfg, site, crawl_no, net, queue, visited, host_last,
                   results, lock, tasks, main_pc, clock, disk, dl, srv>>

NextWarc ==
    \/ X_Open
    \/ X_Result
    \/ X_Return

SpecWarc == InitWarcCall /\ [][NextWarc]_vars

(***************************************************************************)
(* SpecServer: the web server's POST /download and GET /result/{id}.       *)
(***************************************************************************)
ZipMime == "application/zip"
HtmlMime == "text/html"
PlainMime == "text/plain"

\* The form of a POST /download, as far as the handler can tell requests
\* apart: the page, whether its host resolves to public addresses only, and
\* the fields start_type, warc and respect_robots.
Forms ==
    [url : {Seed, P1}, public : BOOLEAN, start_type : {"download", "crawl"},
     warc : BOOLEAN, respect_robots : BOOLEAN]

\* download(), lines 108-213.  The handler reads neither start_type nor
\* warc: it fetches the one page and registers a zip of the output directory.
S_Download ==
    /\ Len(srv.posts) < MaxRequests
    /\ \E form \in Forms, resp \in CrawlRobotsResponses, script \in CrawlScripts :
          LET r == fetch(form.url, form.respect_robots, resp, script, "never")
              id == Len(srv.results_store) + 1
              entry == [mime |-> ZipMime, name |-> <<"downloaded", form.url.host, "zip">>,
                        files |-> {PagePath(form.url)},
                        stored |-> TRUE,     \* the id is a key of results_store
                        file |-> TRUE,       \* the archive at entry['path'] exists
                        expired |-> FALSE]   \* created_at is over the TTL ago
              post == [form |-> form, id |-> 0, status |-> 0]
          IN srv' =
               IF ~form.public
               THEN [srv EXCEPT !.posts = Append(@, [post EXCEPT !.status = 400]),
                                !.last = [status |-> 400, mime |-> HtmlMime, id |-> 0]]
               ELSE IF r.raised
               THEN [srv EXCEPT !.posts = Append(@, [post EXCEPT !.status = 500]),
                                !.last = [status |-> 500, mime |-> HtmlMime, id |-> 0]]
               ELSE [srv EXCEPT !.results_store = Append(@, entry),
                                !.posts = Append(@, [post EXCEPT !.status = 200,
                                                                 !.id = id]),
                                !.last = [status |-> 200, mime |-> HtmlMime, id |-> id]]
    /\ UNCHANGED <<cfg, site, crawl_no, net, queue, visited, host_last,
                   results, lock, tasks, main_pc, clock, disk, dl, warc>>

\* get_result(), lines 216-226.  open(path, 'rb') of a file that is gone
\* raises FileNotFoundError, which the framework answers with a 500.
S_GetResult ==
    /\ \E id \in 1..MaxRequests :
          srv' = [srv EXCEPT !.last =
                     IF id \in DOMAIN srv.results_store /\ srv.results_store[id].stored
                     THEN IF srv.results_store[id].file
                          THEN [status |-> 200, mime |-> srv.results_store[id].mime,
                                id |-> id]
                          ELSE [status |-> 500, mime |-> PlainMime, id |-> id]
                     ELSE [status |-> 404, mime |-> HtmlMime, id |-> id]]
    /\ UNCHANGED <<cfg, site, crawl_no, net, queue, visited, host_last,
                   results, lock, tasks, main_pc, clock, disk, dl, warc>>

InitServer ==
    /\ cfg \in {c \in Configs : c.max_pages = 1 /\ c.max_depth = 0
                                /\ c.concurrency = 1 /\ c.same_domain
                                /\ c.respect_robots
                                /\ c.include_patterns = <<>>
                                /\ c.progress_callback = "quiet"}
    /\ site = "plain"
    /\ crawl_no = 1
    /\ net = InitNet
    /\ queue = <<>>
    /\ visited = {}
    /\ host_last = [h \in Hosts |-> 0]
    /\ results = <<>>
    /\ lock = 0
    /\ tasks = <<>>
    /\ main_pc = "idle"
    /\ clock = StartClock
    /\ disk = <<>>
    /\ dl = InitDl
    /\ warc = InitWarc
    /\ srv = InitSrv

\* Time passes: the archive of a registered result is now older than
\* ARCHIVE_TTL_SECONDS.
S_Expire ==
    /\ \E id \in DOMAIN srv.results_store :
          /\ ~srv.results_store[id].expired
          /\ srv' = [srv EXCEPT !.results_store[id].expired = TRUE]
    /\ UNCHANGED <<cfg, site, crawl_no, net, queue, visited, host_last,
                   results, lock, tasks, main_pc, clock, disk, dl, warc>>

\* cleanup_expired_archives, lines 51-64: the sleep is over; under
\* results_lock the expired entries are collected.
S_CleanupScan ==
    /\ srv.cleanup.pc = "sleep"
    /\ srv' = [srv EXCEPT !.cleanup =
                 [pc |-> "cleanup",
                  expired |-> SelectSeq([i \in DOMAIN srv.results_store |-> i],
                                        LAMBDA i : /\ srv.results_store[i].stored
                                                   /\ srv.results_store[i].expired)]]
    /\ UNCHANGED <<cfg, site, crawl_no, net, queue, visited, host_last,
                   results, lock, tasks, main_pc, clock, disk, dl, warc>>

\* cleanup_expired_archives, lines 67-69: tmpdir.cleanup() removes the
\* directory of the first collected entry, the archive with it; if it
\* raises, the except clause at line 72 skips the pop.
S_CleanupFiles ==
    /\ srv.cleanup.pc = "cleanup"
    /\ srv.cleanup.expired # <<>>
    /\ \E raises \in BOOLEAN :
          LET id == Head(srv.cleanup.expired)
          IN srv' = IF raises
                    THEN [srv EXCEPT !.cleanup.expired = Tail(@)]
                    ELSE [srv EXCEPT !.results_store[id].file = FALSE,
                                     !.cleanup.pc = "pop"]
    /\ UNCHANGED <<cfg, site, crawl_no, net, queue, visited, host_last,
                   results, lock, tasks, main_pc, clock, disk, dl, warc>>

\* cleanup_expired_archives, lines 70-71: under results_lock the entry is
\* popped.
S_CleanupPop ==
    /\ srv.cleanup.pc = "pop"
    /\ srv' = [srv EXCEPT !.results_store[Head(srv.cleanup.expired)].stored = FALSE,
                          !.cleanup = [pc |-> "cleanup", expired |-> Tail(@.expired)]]
    /\ UNCHANGED <<cfg, site, crawl_no, net, queue, visited, host_last,
                   results, lock, tasks, main_pc, clock, disk, dl, warc>>

\* cleanup_expired_archives, line 66 and back to line 51: the loop over the
\* collected entries is over.
S_CleanupSleep ==
    /\ srv.cleanup.pc = "cleanup"
    /\ srv.cleanup.expired = <<>>
    /\ srv' = [srv EXCEPT !.cleanup.pc = "sleep"]
    /\ UNCHANGED <<cfg, site, crawl_no, net, queue, visited, host_last,
                   results, lock, tasks, main_pc, clock, disk, dl, warc>>

NextServer ==
    \/ S_Download
    \/ S_GetResult
    \/ S_Expire
    \/ S_CleanupScan
    \/ S_CleanupFiles
    \/ S_CleanupPop
    \/ S_CleanupSleep

SpecServer == InitServer /\ [][NextServer]_vars

(***************************************************************************)
(* Properties of Downloader.fetch.                                         *)
(***************************************************************************)
\* The robots.txt fetches that give the parser nothing to parse.
RobotsFetchFailed == {"neterr", "garbled", "500"}

RobotsChecked == dl.respect_robots /\ dl.allowed # "unchecked"

BackoffSchedule == <<1, 2, 4, 8, 16, 16, 16>>

AllAttemptsFail == \A i \in 1..8 : dl.script[i] = "err"

\* C10: a static fetch issues at most 8 GETs; the sleep after the failed
\* attempt k (k = 0..6) is min(2^k, 16), so the sleeps made are a prefix of
\* 1,2,4,8,16,16,16, one per failed attempt; once an attempt succeeds no
\* further GET is issued; and when all 8 attempts fail, fetch raises the
\* transport error after the eighth, having slept the whole schedule and
\* written no file.
C10_StaticRetryBounded ==
    /\ dl.gets <= 8
    /\ Len(dl.waits) <= 7
    /\ \A i \in 1..Len(dl.waits) :
          dl.waits[i] = BackoffSchedule[i] /\ dl.script[i] = "err"
    /\ dl.content # NoContent =>
          /\ dl.gets = Len(dl.waits) + 1
          /\ dl.script[dl.gets] = "ok"
    /\ (dl.gets > 0 /\ dl.content = NoContent /\ dl.pc # "raised") =>
          dl.gets = Len(dl.waits)
    /\ (FetchEnded /\ dl.gets > 0 /\ AllAttemptsFail) =>
          /\ dl.pc = "raised"
          /\ dl.error = RequestExceptionText
          /\ dl.gets = 8
          /\ dl.waits = BackoffSchedule
          /\ dl.content = NoContent
          /\ PagePath(dl.url) \notin DOMAIN disk

\* A fetch has raised after eight failed attempts and the seven sleeps of the
\* schedule.
C10_Witness ==
    /\ dl.pc = "raised"
    /\ dl.error = RequestExceptionText
    /\ dl.gets = 8
    /\ dl.waits = BackoffSchedule

\* C11: fetch either raises or returns the path of a file that exists and is
\* not empty; and when it raises after exhausting its retries, no page file
\* has been written.
C11_ReturnsNonEmptyFile ==
    /\ dl.pc = "returned" =>
          /\ dl.path \in DOMAIN disk
          /\ disk[dl.path] # EmptyText
    /\ (dl.pc = "raised" /\ dl.error = RequestExceptionText) =>
          PagePath(dl.url) \notin DOMAIN disk

AssetsRewritten == dl.pc = "returned" /\ dl.save_assets /\ dl.rewrite_assets

\* C12: after a fetch with save_assets and rewrite_assets, for every asset
\* tag whose asset was downloaded and saved, the page file on disk holds the
\* local relative path assets/{host}/{basename} in that tag and no longer
\* the reference the server sent.
C12_SavedPageRewritten ==
    AssetsRewritten =>
        \A k \in 1..Len(dl.tried) :
            dl.tried[k].result = "saved" =>
                LET tag == disk[dl.path].srcs[dl.tried[k].pos]
                IN /\ tag.ref = LocalRef(AssetPath(dl.tried[k].url))
                   /\ tag.ref # OrigRef(dl.tried[k].url)

AssetFailures == {"skipped", "fail", "write_error"}

\* C16: with save_assets, with and without rewrite_assets, an asset whose
\* download is denied by robots, exhausts its retries or cannot be written
\* never makes fetch raise: fetch does not raise once it has begun on the
\* assets, every asset download is attempted, and fetch returns the path of
\* the saved page.
C16_AssetFailureSwallowed ==
    (dl.save_assets /\ dl.fault \notin {"assets_found", "done"}) =>
        /\ dl.tried # <<>> => dl.pc # "raised"
        /\ dl.pc = "returned" =>
              /\ dl.path = PagePath(dl.url)
              /\ dl.path \in DOMAIN disk
              /\ Len(dl.tried) =
                    Len(AssetWork(disk[dl.path], parse_assets(disk[dl.path]),
                                  dl.rewrite_assets))

\* A fetch without rewrite_assets has returned after its first asset failed
\* and its second was saved.
C16_Witness ==
    /\ dl.pc = "returned"
    /\ dl.save_assets /\ ~dl.rewrite_assets
    /\ Len(dl.tried) = 2
    /\ dl.tried[1].result \in AssetFailures
    /\ dl.tried[2].result = "saved"
    /\ AssetPath(dl.tried[2].url) \in DOMAIN disk

FetchRaised(t) == tasks[t].raised # NULL

GzipMimes == {"application/gzip", "application/x-gzip"}
ZipMimes == {"application/zip", "application/x-zip-compressed"}

\* The last response is that of GET /result/{id} for the result that the
\* k-th POST /download registered.
ServedResultOf(k) ==
    /\ srv.posts[k].status = 200
    /\ srv.last.status = 200
    /\ srv.last.id = srv.posts[k].id
    /\ srv.last.mime # HtmlMime

\* C17: the result registered by a POST /download with start_type=crawl and
\* warc=true is served by GET /result/{id} with a gzip MIME type; the result
\* of a plain download, or of a crawl with warc=false, is served as a zip.
C17_WarcServedAsGzip ==
    \A k \in 1..Len(srv.posts) :
        ServedResultOf(k) =>
            IF srv.posts[k].form.start_type = "crawl" /\ srv.posts[k].form.warc
            THEN srv.last.mime \in GzipMimes
            ELSE srv.last.mime \in ZipMimes

\* C14: when crawl() has returned, every URL that a worker was handed and
\* that it reserved in the visited set is the url of a CrawlResult of the
\* returned list.
C14_ReservedHasResult ==
    main_pc = "done" =>
        \A t \in TaskIds :
            tasks[t].reserved =>
                \E i \in 1..Len(results) : results[i].url = tasks[t].url

SeedFetched ==
    /\ Len(tasks) >= 1
    /\ tasks[1].wrote
    /\ \E k \in 1..Len(tasks[1].out) : tasks[1].out[k].saved_path # NoPath

\* C18: every job of the frontier and every job handed to a worker has a
\* depth of at most max_depth; and a crawl with max_depth = 0 whose seed
\* fetch succeeded returns exactly one result, which is for the seed and has
\* the path of a file that exists.
C18_DepthBounded ==
    /\ \A i \in 1..Len(queue) : queue[i].depth <= cfg.max_depth
    /\ \A t \in TaskIds : tasks[t].depth <= cfg.max_depth
    /\ (main_pc = "done" /\ cfg.max_depth = 0 /\ SeedFetched) =>
          /\ Len(results) = 1
          /\ results[1].url = start_url
          /\ results[1].saved_path # NoPath
          /\ results[1].saved_path \in DOMAIN disk

Included(url) ==
    cfg.include_patterns = <<>>
    \/ \E i \in 1..Len(cfg.include_patterns) : Search(cfg.include_patterns[i], url)

Excluded(url) ==
    \E i \in 1..Len(cfg.exclude_patterns) : Search(cfg.exclude_patterns[i], url)

\* C19: every job of the frontier, and every job handed to a worker, that
\* came from a discovered link has a URL that matches an include pattern
\* (when there are any) and no exclude pattern; the seed is the first job
\* of the frontier and the first handed to a worker whatever the patterns.
C19_PatternsOnLinksOnly ==
    /\ \A i \in 1..Len(queue) :
          queue[i].depth > 0 => Included(queue[i].url) /\ ~Excluded(queue[i].url)
    /\ \A t \in TaskIds :
          tasks[t].depth > 0 => Included(tasks[t].url) /\ ~Excluded(tasks[t].url)
    /\ tasks = <<>> => queue = <<[url |-> start_url, depth |-> 0]>>
    /\ tasks # <<>> => tasks[1].url = start_url /\ tasks[1].depth = 0

\* A crawl whose seed matches no include pattern has fetched the seed and
\* handed the link that passes the patterns to a worker, and has dropped the
\* link that an exclude pattern matches.
C19_Witness ==
    /\ cfg.include_patterns # <<>>
    /\ ~Included(start_url)
    /\ ~cfg.same_domain
    /\ Len(tasks) >= 2
    /\ tasks[1].wrote
    /\ tasks[1].pc = "done"
    /\ tasks[2].url = P1
    /\ \A t \in TaskIds : tasks[t].url # X1
    /\ \A i \in 1..Len(queue) : queue[i].url # X1
    /\ Cardinality(visited) + Len(queue) < cfg.max_pages

\* C20: with respect_robots set, a fetch that robots denies raises
\* PermissionError at once: it issues no GET for the page, makes no retry
\* sleep, emits no progress event and writes no file.  With respect_robots
\* off, the robots check allows and no robots.txt request is ever made.
C20_DenialTerminal ==
    /\ dl.allowed = "no" =>
          /\ dl.respect_robots
          /\ dl.pc = "raised"
          /\ dl.error = PermissionErrorText
          /\ dl.gets = 0
          /\ dl.waits = <<>>
          /\ dl.events = <<>>
          /\ disk = <<>>
    /\ (~dl.respect_robots /\ dl.pc \notin {"idle", "robots"}) =>
          /\ dl.allowed = "yes"
          /\ dl.robots_gets = 0

\* A fetch of a page that the served robots.txt disallows has raised.
C20_Witness ==
    /\ dl.respect_robots
    /\ dl.robots_resp = "200"
    /\ dl.url = P1
    /\ dl.allowed = "no"
    /\ dl.pc = "raised"
    /\ dl.robots_gets = 1

Exported(r) == r.saved_path # NoPath /\ r.saved_path \in DOMAIN disk

\* A record of a page: a resource record with the URL of a result whose
\* saved_path exists.
IsPageRecord(rec) ==
    /\ rec.type = "resource"
    /\ \E k \in 1..Len(results) : Exported(results[k]) /\ results[k].url = rec.url

UrlsOf(seq) == [i \in 1..Len(seq) |-> seq[i].url]

\* C15: export_warc writes the warcinfo record first and no other; then, in
\* the order of the list, one resource record with the result's URL for each
\* result whose saved_path is non-null and exists, each followed only by
\* the records of that page's assets found on disk; a result with a null or
\* missing saved_path adds no record; and the call returns the path given.
C15_WarcRecords ==
    /\ warc.records # <<>> =>
          /\ warc.records[1] = WarcInfo
          /\ \A i \in 2..Len(warc.records) : warc.records[i].type = "resource"
    /\ warc.pc = "returned" =>
          /\ warc.ret = warc.filename
          /\ UrlsOf(SelectSeq(warc.records, IsPageRecord))
                = UrlsOf(SelectSeq(results, Exported))
          /\ \A i \in 2..Len(warc.records) :
                ~IsPageRecord(warc.records[i]) =>
                    \E j \in 2..(i - 1) :
                        /\ IsPageRecord(warc.records[j])
                        /\ \A m \in (j + 1)..i : ~IsPageRecord(warc.records[m])
                        /\ AssetPath(warc.records[i].url) \in DOMAIN disk
                        /\ LET html == disk[PagePath(warc.records[j].url)]
                           IN \E n \in 1..Len(html.srcs) :
                                 html.srcs[n].url = warc.records[i].url

\* An export has returned over a list of a result with a null saved_path, a
\* result whose file is missing and a result whose file exists with an
\* asset on disk: it wrote the warcinfo, the page and the asset.
C15_Witness ==
    /\ warc.pc = "returned"
    /\ Len(results) = 3
    /\ results[1].saved_path = NoPath
    /\ results[2].saved_path # NoPath /\ results[2].saved_path \notin DOMAIN disk
    /\ Exported(results[3])
    /\ Len(warc.records) = 4
    /\ warc.records[2] = Resource(results[3].url)

(***************************************************************************)
(* Repeated fetches of one URL.                                            *)
(***************************************************************************)
SecondFetchReturned == dl.call = 2 /\ dl.pc = "returned"

\* C21: when the same URL is fetched a second time into the same output
\* directory with the same custom filename, the second fetch returns the
\* path the first returned and leaves the set of files as it was after the
\* first: it replaces the content of that file and adds none.
C21_RefetchIdempotentOnFiles ==
    SecondFetchReturned =>
        /\ dl.path = dl.first.path
        /\ DOMAIN disk = dl.first.files
        /\ disk[dl.path] = dl.content

C21_Witness ==
    /\ SecondFetchReturned
    /\ dl.custom_filename # NULL
    /\ dl.first.path = FilePath(dl.url, dl.custom_filename)
    /\ dl.first.files = {dl.path}
    /\ disk[dl.path] = EmptyText

(***************************************************************************)
(* The requests a crawl sends to one host.                                 *)
(***************************************************************************)
\* C22: during a crawl any two HTTP requests to the same host that follow
\* each other -- the robots.txt request of the crawler, the robots.txt
\* request inside Downloader.fetch, the page GET and each of its retries --
\* are at least per_host_delay apart.
C22_AllRequestsSpaced ==
    \A h \in Hosts : \A g \in net[h].closest : g >= per_host_delay

(***************************************************************************)
(* The assets export_warc adds.                                            *)
(***************************************************************************)
\* The results whose page export_warc has read and whose asset phase ran to
\* its end.
AssetPhaseDone(k) ==
    k < warc.idx /\ Exported(results[k]) /\ k \notin warc.failed

\* C23: for every exported page, whatever the number of segments of its
\* URL's path, each asset of the page that the downloader saved (at
\* output_dir/assets/{host}/{basename}) has a resource record with its
\* absolute URL in the WARC.
C23_SavedAssetsRecorded ==
    warc.pc = "returned" =>
        \A k \in 1..Len(results) :
            AssetPhaseDone(k) =>
                LET html == disk[results[k].saved_path]
                IN \A n \in 1..Len(html.srcs) :
                      AssetPath(html.srcs[n].url) \in DOMAIN disk
                         => \E i \in 1..Len(warc.records) :
                               warc.records[i] = Resource(html.srcs[n].url)

C25_VisitedPlusFrontierBounded ==
    Cardinality(visited) + Len(queue) <= cfg.max_pages

(***************************************************************************)
(* The file a page of a crawl is saved to.                                 *)
(***************************************************************************)
Saved(r) == r.saved_path # NoPath

SameHostAndPath(u, v) == u.host = v.host /\ u.path = v.path

\* C26: the file a crawled page is saved to depends on the host and the
\* path of its URL only: results whose URLs agree on both carry the same
\* saved_path, whatever else the URLs differ in, and that file holds the
\* page served for one of the URLs with this host and path.
C26_FileFromHostAndPath ==
    /\ \A i, j \in 1..Len(results) :
          (Saved(results[i]) /\ Saved(results[j])
             /\ SameHostAndPath(results[i].url, results[j].url))
                => results[i].saved_path = results[j].saved_path
    /\ \A i \in 1..Len(results) :
          Saved(results[i]) =>
              /\ results[i].saved_path \in DOMAIN disk
              /\ SameHostAndPath(disk[results[i].saved_path].page, results[i].url)

\* One crawl has saved the seed and then the seed's URL with a query string:
\* two results with different URLs and one saved_path, and the file holds
\* what the later fetch wrote.
C26_Witness ==
    /\ Len(results) >= 2
    /\ results[1].url = Seed /\ results[2].url = SeedQ
    /\ Saved(results[1])
    /\ results[2].saved_path = results[1].saved_path
    /\ disk[results[2].saved_path] = Text(SeedQ)

(***************************************************************************)
(* A second crawl() on the same Crawler.                                   *)
(***************************************************************************)
\* C27: a second crawl() on the same Crawler with the same seed fetches the
\* seed again and returns only the results of the second crawl.
C27_SecondCrawlStartsClean ==
    (crawl_no = 2 /\ main_pc = "done") =>
        /\ \E t \in TaskIds : tasks[t].url = start_url /\ tasks[t].got
        /\ \A i \in 1..Len(results) :
              \E t \in TaskIds : \E k \in 1..Len(tasks[t].out) :
                  tasks[t].out[k] = results[i]

(***************************************************************************)
(* The CrawlResults of a Crawler.                                          *)
(***************************************************************************)
OneOfPathAndError(r) == (r.saved_path # NoPath) # (r.error # NULL)

\* C29: every CrawlResult in the result list has exactly one of saved_path
\* and error set, and a step of the crawl only appends to the list: the
\* results already in it stay as they are, in their places.
C29_ResultsExclusiveAndKept ==
    /\ [](\A i \in 1..Len(results) : OneOfPathAndError(results[i]))
    /\ [][/\ Len(results') >= Len(results)
          /\ SubSeq(results', 1, Len(results)) = results]_vars

\* The list holds a result with a saved_path and, after it, a result with
\* an error.
C29_Witness ==
    \E i, j \in 1..Len(results) :
        /\ i < j
        /\ results[i].saved_path # NoPath /\ results[i].error = NULL
        /\ results[j].saved_path = NoPath /\ results[j].error # NULL

(***************************************************************************)
(* GET /result/{id} and the background cleanup.                            *)
(***************************************************************************)
\* C28: whenever results_store holds an entry, the archive of the entry
\* exists; and a GET /result/{id} is answered with the archive when the
\* entry is there and with 404 when it is not, never with an error.
C28_StoredArchiveExists ==
    /\ \A id \in DOMAIN srv.results_store :
          srv.results_store[id].stored => srv.results_store[id].file
    /\ srv.last.status # 500 \/ srv.last.mime # PlainMime

(***************************************************************************)
(* Termination of crawl().                                                 *)
(***************************************************************************)
\* The worker is about to take the single lock.
RequestsLock(t) ==
    \/ tasks[t].pc \in {"reserve", "wait"}
    \/ tasks[t].pc = "enqueue" /\ tasks[t].idx = 1

\* C30: with fetches and robots checks that end, every crawl() call ends:
\* no worker requests the lock while it holds it, crawl() returns only when
\* every submitted worker has finished, and a crawl() that has started does
\* return.
C30_CrawlTerminates ==
    /\ [](\A t \in TaskIds : lock = t => ~RequestsLock(t))
    /\ [](main_pc = "done" => \A t \in TaskIds : tasks[t].pc = "done")
    /\ (main_pc = "dispatch") ~> (main_pc = "done")

\* crawl() has returned after a run of three jobs on two threads in which a
\* worker slept inside _wait_for_host and a worker enqueued links.
C30_Witness ==
    /\ main_pc = "done"
    /\ cfg.concurrency = 2
    /\ Len(tasks) >= 3
    /\ \E t \in TaskIds : tasks[t].wake > tasks[t].last /\ tasks[t].stamp >= tasks[t].wake
                              /\ tasks[t].stamp > StartClock
    /\ \E t \in TaskIds : tasks[t].links # <<>>
====
